---------------------------- MODULE Spec2Model ----------------------------
(* A model of the bJSON serialization library (src/include/bJSON.h) and of *)
(* the user-registered Example type of its tests.                          *)
(*                                                                         *)
(* Text is a sequence of character codes.  A JSONValue is a record         *)
(* [type, value] where value is the std::variant: [alt, v] names the       *)
(* alternative held and its content.  An ObjectType is the sequence of     *)
(* its entries in the (unspecified) iteration order of the unordered_map.  *)
(* A NumberType is an integer count of quarters (the dyadic rationals      *)
(* k/4 are exact in float, double and long double).                        *)
EXTENDS Integers, Sequences, FiniteSets, TLC

VARIABLES vals, fresh, arg, call, last, hook

vars == <<vals, fresh, arg, call, last, hook>>

-----------------------------------------------------------------------------
(* Bounds of the model.                                                    *)

NumSlots == 2
MaxStrLen == 3
MaxArrLen == 3
MaxObjLen == 2

(* the largest exit status of the tests executable that is drawn *)
MaxStatus == 7

-----------------------------------------------------------------------------
(* Character codes of the characters the serializers read and write.       *)

Backslash == 92
Quote == 34
Newline == 10
CarriageReturn == 13
Tab == 9
FormFeed == 12
Backspace == 8
Comma == 44
Space == 32
Colon == 58
LBracket == 91
RBracket == 93
LBrace == 123
RBrace == 125
Minus == 45
Dot == 46
Digit0 == 48

NullText == <<110, 117, 108, 108>>
TrueText == <<116, 114, 117, 101>>
FalseText == <<102, 97, 108, 115, 101>>

None == [T |-> "none"]

(* no copy or move was the statement just executed *)
NoOp == [op |-> "none"]

(* the pre-push script is not running *)
NoHook == [pc |-> "none"]

-----------------------------------------------------------------------------
(* JSONValue: the member types, the constructors.                          *)

JSONLiteralType == {"null_v", "true_v", "false_v"}

JSONValueType == {"undefined", "literal", "number", "string", "array", "object"}

(* type{undefined}, value{LiteralType::null_v} *)
DefaultValue == [type |-> "undefined", value |-> [alt |-> "literal", v |-> "null_v"]]

FromLiteral(val) == [type |-> "literal", value |-> [alt |-> "literal", v |-> val]]

(* a bool taken by the arithmetic constructor *)
FromBool_AsNumber(val) == [type |-> "number", value |-> [alt |-> "number", v |-> IF val THEN 4 ELSE 0]]

FromBool(val) == FromLiteral(IF val THEN "true_v" ELSE "false_v")

FromNumber(val) == [type |-> "number", value |-> [alt |-> "number", v |-> val]]

IntegerTypes == {"int", "unsigned", "size_t"}

FloatingTypes == {"float", "double"}

ArithmeticTypes == IntegerTypes \cup FloatingTypes

(* NumberType(val): an integer n widens to n, that is 4n quarters; a      *)
(* floating input is given in quarters already.                           *)
Widen(T, val) == IF T \in IntegerTypes THEN 4 * val ELSE val

(* an arithmetic input narrowed to an integer on its way to NumberType *)
FromArithmetic_Truncating(T, val) == FromNumber(4 * (Widen(T, val) \div 4))

FromArithmetic(T, val) == FromNumber(Widen(T, val))

FromString(val) == [type |-> "string", value |-> [alt |-> "string", v |-> val]]

(* FromCharPtr that leaves the value undefined for nullptr *)
FromCharPtr_NullIsUndefined(val) ==
    IF val.null THEN DefaultValue ELSE FromString(val.text)

(* a char* is [null, text]: nullptr, or the text it points to *)
FromCharPtr(val) == FromString(IF val.null THEN <<>> ELSE val.text)

(* FromArray that sets the type of an object *)
FromArray_TaggedObject(val) == [type |-> "object", value |-> [alt |-> "array", v |-> val]]

FromArray(val) == [type |-> "array", value |-> [alt |-> "array", v |-> val]]

FromObject(val) == [type |-> "object", value |-> [alt |-> "object", v |-> val]]

CopyOf(other) == [type |-> other.type, value |-> other.value]

(* The contents std::move may leave in a variant: the alternative stays,  *)
(* a string, array or object is left valid but unspecified.               *)
MovedFromPayloads(value) ==
    IF value.alt \in {"string", "array", "object"}
    THEN {value, [alt |-> value.alt, v |-> <<>>]}
    ELSE {value}

-----------------------------------------------------------------------------
(* The serialization implementations.  An implementation returns           *)
(* [thrown, text, diags]: whether it threw, the text it returned, and the  *)
(* number of diagnostics the serialize calls it made wrote to std::cout.   *)

RECURSIVE Digits(_)
Digits(n) == IF n < 10 THEN <<Digit0 + n>> ELSE Digits(n \div 10) \o <<Digit0 + (n % 10)>>

(* std::format("{}", val): the shortest decimal text that round-trips *)
Format(val) ==
    LET a == IF val < 0 THEN -val ELSE val
        frac == CASE a % 4 = 0 -> <<>>
                  [] a % 4 = 1 -> <<Dot, Digit0 + 2, Digit0 + 5>>
                  [] a % 4 = 2 -> <<Dot, Digit0 + 5>>
                  [] a % 4 = 3 -> <<Dot, Digit0 + 7, Digit0 + 5>>
    IN  (IF val < 0 THEN <<Minus>> ELSE <<>>) \o Digits(a \div 4) \o frac

Returned(text, diags) == [thrown |-> FALSE, text |-> text, diags |-> diags]

Thrown(diags) == [thrown |-> TRUE, text |-> <<>>, diags |-> diags]

(* LiteralType_impl whose default case falls back to "null" *)
LiteralType_impl_NoThrow(val) ==
    CASE val = "true_v" -> Returned(TrueText, 0)
      [] val = "false_v" -> Returned(FalseText, 0)
      [] OTHER -> Returned(NullText, 0)

LiteralType_impl(val) ==
    CASE val = "null_v" -> Returned(NullText, 0)
      [] val = "true_v" -> Returned(TrueText, 0)
      [] val = "false_v" -> Returned(FalseText, 0)
      [] OTHER -> Thrown(0)

NumberType_impl(val) == Returned(Format(val), 0)

RECURSIVE regex_replace(_, _, _)

(* regex_replace that replaces the first occurrence only *)
regex_replace_FirstOnly(s, c, fmt) ==
    IF s = <<>> THEN <<>>
    ELSE IF Head(s) = c THEN fmt \o Tail(s)
    ELSE <<Head(s)>> \o regex_replace(Tail(s), c, fmt)

(* std::regex_replace(s, std::regex{c}, fmt): every occurrence of the     *)
(* character c replaced by fmt, left to right                             *)
regex_replace(s, c, fmt) ==
    IF s = <<>> THEN <<>>
    ELSE (IF Head(s) = c THEN fmt ELSE <<Head(s)>>) \o regex_replace(Tail(s), c, fmt)

(* the passes with the backslash pass last *)
EscapePasses_BackslashLast ==
    << <<Quote, <<Backslash, Quote>> >>,
       <<Newline, <<Backslash, 110>> >>,
       <<CarriageReturn, <<Backslash, 114>> >>,
       <<Tab, <<Backslash, 116>> >>,
       <<FormFeed, <<Backslash, 102>> >>,
       <<Backspace, <<Backslash, 98>> >>,
       <<Backslash, <<Backslash, Backslash>> >> >>

(* the seven passes, in the order of the source *)
EscapePasses ==
    << <<Backslash, <<Backslash, Backslash>> >>,
       <<Quote, <<Backslash, Quote>> >>,
       <<Newline, <<Backslash, 110>> >>,
       <<CarriageReturn, <<Backslash, 114>> >>,
       <<Tab, <<Backslash, 116>> >>,
       <<FormFeed, <<Backslash, 102>> >>,
       <<Backspace, <<Backslash, 98>> >> >>

RECURSIVE ApplyPasses(_, _)
ApplyPasses(serialized, passes) ==
    IF passes = <<>> THEN serialized
    ELSE ApplyPasses(regex_replace(serialized, Head(passes)[1], Head(passes)[2]), Tail(passes))

(* StringType_impl without the enclosing quotes *)
StringType_impl_Unquoted(val) ==
    Returned(ApplyPasses(val, EscapePasses), 0)

StringType_impl(val) ==
    Returned(<<Quote>> \o ApplyPasses(val, EscapePasses) \o <<Quote>>, 0)

RECURSIVE serialize(_, _)
RECURSIVE serializer(_, _)
RECURSIVE ArrayLoop(_, _, _)
RECURSIVE ObjectLoop(_, _, _)

(* ArrayLoop that writes the comma before it skips an undefined element *)
ArrayLoop_CommaBeforeSkip(rest, first, acc) ==
    IF rest = <<>> THEN acc
    ELSE LET element == Head(rest)
             sep == IF ~first THEN <<Comma>> ELSE <<>>
         IN  IF element.type = "undefined"
             THEN ArrayLoop(Tail(rest), FALSE, [text |-> acc.text \o sep, diags |-> acc.diags])
             ELSE LET r == serialize("JSONValue", element)
                  IN  ArrayLoop(Tail(rest), FALSE,
                                [text |-> acc.text \o sep \o <<Space>> \o r.text,
                                 diags |-> acc.diags + r.diags])

(* ArrayLoop that also skips an element whose text is empty *)
ArrayLoop_DropsFailed(rest, first, acc) ==
    IF rest = <<>> THEN acc
    ELSE LET element == Head(rest) IN
         IF element.type = "undefined" THEN ArrayLoop(Tail(rest), first, acc)
         ELSE LET r == serialize("JSONValue", element)
                  sep == IF ~first THEN <<Comma>> ELSE <<>>
              IN  IF r.text = <<>>
                  THEN ArrayLoop(Tail(rest), first,
                                 [text |-> acc.text, diags |-> acc.diags + r.diags])
                  ELSE ArrayLoop(Tail(rest), FALSE,
                                 [text |-> acc.text \o sep \o <<Space>> \o r.text,
                                  diags |-> acc.diags + r.diags])

(* ArrayLoop that also skips an array none of whose elements is kept *)
ArrayLoop_DropsHollow(rest, first, acc) ==
    IF rest = <<>> THEN acc
    ELSE LET element == Head(rest) IN
         IF \/ element.type = "undefined"
            \/ /\ element.type = "array" /\ element.value.alt = "array"
               /\ \A i \in 1..Len(element.value.v) : element.value.v[i].type = "undefined"
         THEN ArrayLoop(Tail(rest), first, acc)
         ELSE LET r == serialize("JSONValue", element)
                  sep == IF ~first THEN <<Comma>> ELSE <<>>
              IN  ArrayLoop(Tail(rest), FALSE,
                            [text |-> acc.text \o sep \o <<Space>> \o r.text,
                             diags |-> acc.diags + r.diags])

(* the range-for of the array implementation: acc is [text, diags] *)
ArrayLoop(rest, first, acc) ==
    IF rest = <<>> THEN acc
    ELSE LET element == Head(rest) IN
         IF element.type = "undefined" THEN ArrayLoop(Tail(rest), first, acc)
         ELSE LET r == serialize("JSONValue", element)
                  sep == IF ~first THEN <<Comma>> ELSE <<>>
              IN  ArrayLoop(Tail(rest), FALSE,
                            [text |-> acc.text \o sep \o <<Space>> \o r.text,
                             diags |-> acc.diags + r.diags])

ArrayType_impl(val) ==
    LET r == ArrayLoop(val, TRUE, [text |-> <<LBracket>>, diags |-> 0])
    IN  Returned(r.text \o <<Space, RBracket>>, r.diags)

(* ObjectLoop that skips an entry only after it wrote the key *)
ObjectLoop_KeyBeforeSkip(rest, first, acc) ==
    IF rest = <<>> THEN acc
    ELSE LET entry == Head(rest)
             k == serialize("JSONValue", FromString(entry.key))
             sep == IF ~first THEN <<Comma>> ELSE <<>>
             keyed == acc.text \o sep \o <<Space>> \o k.text \o <<Space, Colon, Space>>
         IN  IF entry.value.type = "undefined"
             THEN ObjectLoop(Tail(rest), FALSE, [text |-> keyed, diags |-> acc.diags + k.diags])
             ELSE LET r == serialize("JSONValue", entry.value)
                  IN  ObjectLoop(Tail(rest), FALSE,
                                 [text |-> keyed \o r.text,
                                  diags |-> acc.diags + k.diags + r.diags])

(* ObjectLoop that writes the key between quotes as it is *)
ObjectLoop_RawKey(rest, first, acc) ==
    IF rest = <<>> THEN acc
    ELSE LET entry == Head(rest) IN
         IF entry.value.type = "undefined" THEN ObjectLoop(Tail(rest), first, acc)
         ELSE LET r == serialize("JSONValue", entry.value)
                  sep == IF ~first THEN <<Comma>> ELSE <<>>
              IN  ObjectLoop(Tail(rest), FALSE,
                             [text |-> acc.text \o sep \o <<Space, Quote>> \o entry.key
                                       \o <<Quote, Space, Colon, Space>> \o r.text,
                              diags |-> acc.diags + r.diags])

(* the range-for of the object implementation, over the entries in the    *)
(* map's iteration order                                                  *)
ObjectLoop(rest, first, acc) ==
    IF rest = <<>> THEN acc
    ELSE LET entry == Head(rest) IN
         IF entry.value.type = "undefined" THEN ObjectLoop(Tail(rest), first, acc)
         ELSE LET k == serialize("JSONValue", FromString(entry.key))
                  r == serialize("JSONValue", entry.value)
                  sep == IF ~first THEN <<Comma>> ELSE <<>>
              IN  ObjectLoop(Tail(rest), FALSE,
                             [text |-> acc.text \o sep \o <<Space>> \o k.text
                                       \o <<Space, Colon, Space>> \o r.text,
                              diags |-> acc.diags + k.diags + r.diags])

ObjectType_impl(val) ==
    LET r == ObjectLoop(val, TRUE, [text |-> <<LBrace>>, diags |-> 0])
    IN  Returned(r.text \o <<Space, RBrace>>, r.diags)

(* std::get<T>(val.value) throws std::bad_variant_access when the variant *)
(* holds another alternative than the one val.type names                  *)
JSONValue_impl(val) ==
    IF val.type = "undefined" THEN Thrown(0)
    ELSE IF val.value.alt # val.type THEN Thrown(0)
    ELSE LET T == CASE val.type = "literal" -> "LiteralType"
                    [] val.type = "number" -> "NumberType"
                    [] val.type = "string" -> "StringType"
                    [] val.type = "array" -> "ArrayType"
                    [] val.type = "object" -> "ObjectType"
             r == serialize(T, val.value.v)
         IN  Returned(r.text, r.diags)

ExampleNameText == <<LBrace, Space, Quote, 110, 97, 109, 101, Quote, Space, Colon, Space>>

ExampleParentText == <<Comma, Space, Quote, 112, 97, 114, 101, 110, 116, Quote, Space, Colon, Space>>

(* the Example of the tests: val is [name, parent], parent is [null, name] *)
Example_impl(val) ==
    IF val.name = <<>> THEN Thrown(0)
    ELSE LET n == serialize("StringType", val.name)
             p == IF ~val.parent.null THEN serialize("StringType", val.parent.name)
                  ELSE serialize("LiteralType", "null_v")
         IN  Returned(ExampleNameText \o n.text \o ExampleParentText \o p.text \o <<Space, RBrace>>,
                      n.diags + p.diags)

(* JSONSerializationInfo<T>::serializer, for the registered types *)
serializer(T, val) ==
    CASE T = "LiteralType" -> LiteralType_impl(val)
      [] T = "NumberType" -> NumberType_impl(val)
      [] T = "StringType" -> StringType_impl(val)
      [] T = "ArrayType" -> ArrayType_impl(val)
      [] T = "ObjectType" -> ObjectType_impl(val)
      [] T = "JSONValue" -> JSONValue_impl(val)
      [] T = "Example" -> Example_impl(val)

(* serialize that answers "null" when the implementation throws *)
serialize_NullOnFailure(T, val) ==
    LET r == serializer(T, val)
    IN  IF r.thrown THEN [text |-> NullText, diags |-> r.diags + 1]
        ELSE [text |-> r.text, diags |-> r.diags]

(* serialize(const T&): whatever the implementation throws is caught, a   *)
(* diagnostic is written and the text stays empty                         *)
serialize(T, val) ==
    LET r == serializer(T, val)
    IN  IF r.thrown THEN [text |-> <<>>, diags |-> r.diags + 1]
        ELSE [text |-> r.text, diags |-> r.diags]

-----------------------------------------------------------------------------
(* The events of a call serialize(x), in the order the code produces       *)
(* them.  An event is [e, T]: serialize<T> is entered ("call") and left    *)
(* ("return"), the implementation of T throws ("throw"), a catch clause of *)
(* serialize<T> is entered ("catch") and writes its diagnostic ("log").    *)

Event(e, T) == [e |-> e, T |-> T]

RECURSIVE Events(_, _)
RECURSIVE ArrayEvents(_)
RECURSIVE ObjectEvents(_)

(* ArrayEvents that calls serialize on an element before it tests the type *)
ArrayEvents_CallsThenTests(rest) ==
    IF rest = <<>> THEN <<>>
    ELSE Events("JSONValue", Head(rest)) \o ArrayEvents(Tail(rest))

(* the body of the array implementation's loop: continue on undefined,    *)
(* before serialize(element) is reached                                   *)
ArrayEvents(rest) ==
    IF rest = <<>> THEN <<>>
    ELSE (IF Head(rest).type = "undefined" THEN <<>>
          ELSE Events("JSONValue", Head(rest)))
         \o ArrayEvents(Tail(rest))

(* ObjectEvents that serializes the key of an entry it then skips *)
ObjectEvents_KeyForSkipped(rest) ==
    IF rest = <<>> THEN <<>>
    ELSE Events("JSONValue", FromString(Head(rest).key))
         \o (IF Head(rest).value.type = "undefined" THEN <<>>
             ELSE Events("JSONValue", Head(rest).value))
         \o ObjectEvents(Tail(rest))

(* the body of the object implementation's loop: serialize(JSONValue{key}) *)
(* and then serialize(value)                                               *)
ObjectEvents(rest) ==
    IF rest = <<>> THEN <<>>
    ELSE (IF Head(rest).value.type = "undefined" THEN <<>>
          ELSE Events("JSONValue", FromString(Head(rest).key))
               \o Events("JSONValue", Head(rest).value))
         \o ObjectEvents(Tail(rest))

(* the calls an implementation makes when it does not throw; the          *)
(* implementations that throw do so before they call anything             *)
ImplEvents(T, val) ==
    CASE T = "ArrayType" -> ArrayEvents(val)
      [] T = "ObjectType" -> ObjectEvents(val)
      [] T = "JSONValue" ->
            Events(CASE val.type = "literal" -> "LiteralType"
                     [] val.type = "number" -> "NumberType"
                     [] val.type = "string" -> "StringType"
                     [] val.type = "array" -> "ArrayType"
                     [] val.type = "object" -> "ObjectType",
                   val.value.v)
      [] T = "Example" ->
            Events("StringType", val.name)
            \o (IF ~val.parent.null THEN Events("StringType", val.parent.name)
                ELSE Events("LiteralType", "null_v"))
      [] OTHER -> <<>>

(* Events in which every serialize on the stack catches and logs *)
Events_CaughtAgainOutside(T, val) ==
    LET inner == IF serializer(T, val).thrown THEN <<Event("throw", T)>>
                 ELSE ImplEvents(T, val)
        failed == \E i \in 1..Len(inner) : inner[i].e = "throw"
    IN  <<Event("call", T)>> \o inner
        \o (IF failed THEN <<Event("catch", T), Event("log", T)>> ELSE <<>>)
        \o <<Event("return", T)>>

(* serialize(const T&): the try block around serializer(val), the catch   *)
(* clauses and the return                                                 *)
Events(T, val) ==
    <<Event("call", T)>>
    \o (IF serializer(T, val).thrown
        THEN <<Event("throw", T), Event("catch", T), Event("log", T)>>
        ELSE ImplEvents(T, val))
    \o <<Event("return", T)>>

-----------------------------------------------------------------------------
(* The registry and the resolution of a call serialize(x).  A deduced type *)
(* is [name, ref]: the forwarding reference of serialize(T&&) deduces T as *)
(* X& for a non-const lvalue, const X& for a const lvalue, X for an rvalue. *)

Registered == {"JSONValue", "LiteralType", "NumberType", "StringType", "ArrayType",
               "ObjectType", "Example"}

(* the types a JSONValue constructor accepts; "Convertible" is a user     *)
(* type with a conversion operator to std::string.  "Opaque" is a user    *)
(* type that is not registered and that no constructor accepts.           *)
Constructible == {"JSONValue", "LiteralType", "NumberType", "StringType", "ArrayType",
                  "ObjectType", "bool", "CharPtr", "Convertible"} \cup ArithmeticTypes

Forms == {"const_lvalue", "lvalue", "rvalue"}

Deduced(X, form) ==
    [name |-> X,
     ref |-> CASE form = "rvalue" -> "none"
               [] form = "lvalue" -> "lref"
               [] form = "const_lvalue" -> "const_lref"]

(* is_json_serializable_v that also answers true for the types a         *)
(* JSONValue can be constructed from                                      *)
is_json_serializable_v_OrConstructible(T) ==
    T.ref = "none" /\ T.name \in Registered \cup Constructible

(* the specialization bJSON_DECLARE_SERIALIZABLE writes, with serializer  *)
(* left nullptr                                                           *)
JSONSerializationInfo_NullSerializer(T) ==
    IF T.ref = "none" /\ T.name \in Registered
    THEN [serializable |-> TRUE, serializer |-> [null |-> TRUE, impl |-> ""]]
    ELSE [serializable |-> FALSE, serializer |-> [null |-> TRUE, impl |-> ""]]

(* JSONSerializationInfo<T>: the specialization bJSON_DECLARE_SERIALIZABLE *)
(* writes for a registered type, the primary template for any other; a    *)
(* function pointer is [null, impl], impl naming the type whose           *)
(* serializer_impl it points to                                           *)
JSONSerializationInfo(T) ==
    IF T.ref = "none" /\ T.name \in Registered
    THEN [serializable |-> TRUE, serializer |-> [null |-> FALSE, impl |-> T.name]]
    ELSE [serializable |-> FALSE, serializer |-> [null |-> TRUE, impl |-> ""]]

is_json_serializable_v(T) == JSONSerializationInfo(T).serializable

json_serializer_v(T) == JSONSerializationInfo(T).serializer

(* converts_to_json_value_v without the std::is_constructible_v test *)
converts_to_json_value_v_Unconstrained(T) ==
    /\ ~is_json_serializable_v(T)
    /\ ~(T.name = "JSONValue" /\ T.ref = "none")

converts_to_json_value_v(T) ==
    /\ ~is_json_serializable_v(T)
    /\ ~(T.name = "JSONValue" /\ T.ref = "none")
    /\ T.name \in Constructible

(* overload resolution between serialize(const T&) and serialize(T&&):    *)
(* when both are viable, T&& binds a non-const lvalue better, and         *)
(* const T& is the more specialized template for a const lvalue           *)
Resolve(X, form) ==
    LET direct == is_json_serializable_v([name |-> X, ref |-> "none"])
        implicit == converts_to_json_value_v(Deduced(X, form))
    IN  CASE direct /\ implicit -> IF form = "lvalue" THEN "implicit" ELSE "direct"
          [] direct /\ ~implicit -> "direct"
          [] ~direct /\ implicit -> "implicit"
          [] OTHER -> "rejected"

(* JSONValue{std::forward<T>(val)}: the constructor overload resolution   *)
(* selects for an argument of type X                                      *)
MakeValue(X, val) ==
    CASE X = "JSONValue" -> CopyOf(val)
      [] X = "LiteralType" -> FromLiteral(val)
      [] X = "bool" -> FromBool(val)
      [] X = "NumberType" -> FromNumber(val)
      [] X \in ArithmeticTypes -> FromArithmetic(X, val)
      [] X = "StringType" -> FromString(val)
      [] X = "CharPtr" -> FromCharPtr(val)
      [] X = "Convertible" -> FromString(val)
      [] X = "ArrayType" -> FromArray(val)
      [] X = "ObjectType" -> FromObject(val)

(* A call's outcome: [path, completed, text, diags, trace]; completed is  *)
(* FALSE when an exception left a noexcept function (std::terminate).     *)
DirectCall(X, val) ==
    LET r == serialize(X, val)
    IN  [path |-> "direct", completed |-> TRUE, text |-> r.text, diags |-> r.diags,
         trace |-> Events(X, val)]

(* serialize(T&&): the JSONValue is constructed outside any try block *)
ImplicitCall(X, val, throws) ==
    IF throws
    THEN [path |-> "implicit", completed |-> FALSE, text |-> <<>>, diags |-> 0,
          trace |-> <<>>]
    ELSE LET r == serialize("JSONValue", MakeValue(X, val))
         IN  [path |-> "implicit", completed |-> TRUE, text |-> r.text, diags |-> r.diags,
              trace |-> Events("JSONValue", MakeValue(X, val))]

-----------------------------------------------------------------------------
(* The inputs.                                                             *)

RECURSIVE SeqsUpTo(_, _)
SeqsUpTo(S, n) ==
    IF n = 0 THEN {<<>>}
    ELSE LET shorter == SeqsUpTo(S, n - 1)
         IN  shorter \cup {Append(q, x) : q \in shorter, x \in S}

Alphabet == {Backslash, Quote, Newline, CarriageReturn, Tab, FormFeed, Backspace,
             0, 31, 97, 110}

Strings == SeqsUpTo(Alphabet, MaxStrLen)

LiteralInputs == JSONLiteralType \cup {"invalid"}

NumberInputs == {-13, -4, 0, 1, 2, 12, 13, 43, 400}

IntegerInputs == {-3, 0, 3, 10, 128}

(* a JSONValue with .type written to disagree with the variant *)
Mismatched == [type |-> "number", value |-> [alt |-> "literal", v |-> "null_v"]]

ElementValues ==
    {DefaultValue,
     [type |-> "undefined", value |-> [alt |-> "string", v |-> <<97>>]],
     FromLiteral("true_v"), FromLiteral("invalid"), FromNumber(13),
     FromString(<<97, Quote>>), FromArray(<<>>), FromArray(<<DefaultValue>>),
     FromArray(<<FromLiteral("null_v"), DefaultValue, FromNumber(2)>>),
     FromArray(<<FromArray(<<DefaultValue>>)>>),
     FromObject(<<>>), FromObject(<<[key |-> <<97>>, value |-> DefaultValue]>>),
     Mismatched}

Arrays == SeqsUpTo(ElementValues, MaxArrLen)

Keys == {<<97>>, <<Quote>>, <<>>, <<Backslash, Newline>>}

EntryValues ==
    {DefaultValue, FromLiteral("false_v"), FromLiteral("invalid"), FromNumber(-2),
     FromString(<<Newline>>), FromArray(<<DefaultValue>>), Mismatched}

Entries == {[key |-> k, value |-> v] : k \in Keys, v \in EntryValues}

(* the keys of a map are unique *)
Objects ==
    {o \in SeqsUpTo(Entries, MaxObjLen) :
        \A i, j \in 1..Len(o) : i # j => o[i].key # o[j].key}

ExampleNames == {<<>>, <<97>>, <<Quote, 110>>}

Examples ==
    {[name |-> n, parent |-> [null |-> TRUE, name |-> <<>>]] : n \in ExampleNames}
    \cup {[name |-> n, parent |-> [null |-> FALSE, name |-> m]] :
            n \in ExampleNames, m \in ExampleNames}

CharPtrs == {[null |-> TRUE, text |-> <<>>]}
            \cup {[null |-> FALSE, text |-> t] : t \in SeqsUpTo({97, Quote, Tab}, 2)}

Argument(X, form, val, throws) == [T |-> X, form |-> form, v |-> val, throws |-> throws]

(* the values the public constructors give a JSONValue *)
PublicValues ==
    {FromLiteral("null_v"), FromLiteral("invalid"), FromNumber(13),
     FromString(<<97, Quote>>),
     FromArray(<<FromLiteral("true_v"), DefaultValue>>),
     FromObject(<<[key |-> <<97>>, value |-> FromNumber(2)]>>)}

Slots == 1..NumSlots

-----------------------------------------------------------------------------
(* The lifecycle of JSONValues held by a caller (Spec): vals[s] is the     *)
(* JSONValue in slot s, fresh[s] records that it was default constructed   *)
(* or was the source of a move and has not been constructed or assigned    *)
(* since, call is the serialize call just made and its outcome.            *)

Init ==
    /\ vals = [s \in Slots |-> DefaultValue]
    /\ fresh = [s \in Slots |-> TRUE]
    /\ arg = None
    /\ call = None
    /\ last = NoOp
    /\ hook = NoHook

DefaultConstruct(s) ==
    /\ vals' = [vals EXCEPT ![s] = DefaultValue]
    /\ fresh' = [fresh EXCEPT ![s] = TRUE]
    /\ call' = None
    /\ last' = NoOp
    /\ UNCHANGED <<arg, hook>>

Construct(s, v) ==
    /\ vals' = [vals EXCEPT ![s] = v]
    /\ fresh' = [fresh EXCEPT ![s] = FALSE]
    /\ call' = None
    /\ last' = NoOp
    /\ UNCHANGED <<arg, hook>>

(* the copy or move just executed: destination, source, and the value the *)
(* source held before it                                                  *)
Executed(op, d, s) == [op |-> op, d |-> d, s |-> s, was |-> vals[s]]

(* JSONValue(const JSONValue &other), a new value in slot d *)
CopyConstruct(d, s) ==
    /\ d # s
    /\ vals' = [vals EXCEPT ![d] = [type |-> vals[s].type, value |-> vals[s].value]]
    /\ fresh' = [fresh EXCEPT ![d] = FALSE]
    /\ call' = None
    /\ last' = Executed("CopyConstruct", d, s)
    /\ UNCHANGED <<arg, hook>>

(* MoveConstruct without other.type = undefined *)
MoveConstruct_KeepsSourceType(d, s) ==
    /\ d # s
    /\ \E left \in MovedFromPayloads(vals[s].value) :
          vals' = [vals EXCEPT ![d] = [type |-> vals[s].type, value |-> vals[s].value],
                               ![s] = [type |-> vals[s].type, value |-> left]]
    /\ fresh' = [fresh EXCEPT ![d] = FALSE, ![s] = TRUE]
    /\ call' = None
    /\ last' = Executed("MoveConstruct", d, s)
    /\ UNCHANGED <<arg, hook>>

(* JSONValue(JSONValue &&other), a new value in slot d *)
MoveConstruct(d, s) ==
    /\ d # s
    /\ \E left \in MovedFromPayloads(vals[s].value) :
          vals' = [vals EXCEPT ![d] = [type |-> vals[s].type, value |-> vals[s].value],
                               ![s] = [type |-> "undefined", value |-> left]]
    /\ fresh' = [fresh EXCEPT ![d] = FALSE, ![s] = TRUE]
    /\ call' = None
    /\ last' = Executed("MoveConstruct", d, s)
    /\ UNCHANGED <<arg, hook>>

(* CopyAssign without type = other.type *)
CopyAssign_PayloadOnly(d, s) ==
    /\ vals' = [vals EXCEPT ![d] = [type |-> vals[d].type, value |-> vals[s].value]]
    /\ fresh' = [fresh EXCEPT ![d] = FALSE]
    /\ call' = None
    /\ last' = Executed("CopyAssign", d, s)
    /\ UNCHANGED <<arg, hook>>

(* operator=(const JSONValue &other); d = s is self assignment *)
CopyAssign(d, s) ==
    /\ vals' = [vals EXCEPT ![d] = [type |-> vals[s].type, value |-> vals[s].value]]
    /\ fresh' = [fresh EXCEPT ![d] = FALSE]
    /\ call' = None
    /\ last' = Executed("CopyAssign", d, s)
    /\ UNCHANGED <<arg, hook>>

(* MoveAssign that returns at once when other is *this *)
MoveAssign_SelfGuarded(d, s) ==
    /\ \E left \in MovedFromPayloads(vals[s].value) :
          LET assigned == [vals EXCEPT ![d] = [type |-> vals[s].type, value |-> vals[s].value]]
          IN  vals' = IF d = s THEN vals
                      ELSE [assigned EXCEPT ![s] = [type |-> "undefined", value |-> left]]
    /\ fresh' = IF d = s THEN fresh ELSE [[fresh EXCEPT ![d] = FALSE] EXCEPT ![s] = TRUE]
    /\ call' = None
    /\ last' = Executed("MoveAssign", d, s)
    /\ UNCHANGED <<arg, hook>>

(* MoveAssign without value = std::move(other.value) *)
MoveAssign_KeepsOwnPayload(d, s) ==
    /\ vals' = [[vals EXCEPT ![d] = [type |-> vals[s].type, value |-> vals[d].value]]
                   EXCEPT ![s] = [type |-> "undefined", value |-> vals[s].value]]
    /\ fresh' = [[fresh EXCEPT ![d] = FALSE] EXCEPT ![s] = TRUE]
    /\ call' = None
    /\ last' = Executed("MoveAssign", d, s)
    /\ UNCHANGED <<arg, hook>>

(* operator=(JSONValue &&other): type = other.type; value =               *)
(* std::move(other.value); other.type = undefined, in this order, so      *)
(* that with d = s the value ends undefined                               *)
MoveAssign(d, s) ==
    /\ \E left \in MovedFromPayloads(vals[s].value) :
          LET assigned == [vals EXCEPT ![d] = [type |-> vals[s].type, value |-> vals[s].value]]
          IN  vals' = [assigned EXCEPT ![s] = [type |-> "undefined", value |-> left]]
    /\ fresh' = [[fresh EXCEPT ![d] = FALSE] EXCEPT ![s] = TRUE]
    /\ call' = None
    /\ last' = Executed("MoveAssign", d, s)
    /\ UNCHANGED <<arg, hook>>

(* ArgumentAfter with std::move(val) in place of std::forward<T>(val) *)
ArgumentAfter_Moved(X, form, val) ==
    IF Resolve(X, form) = "implicit"
    THEN {[type |-> "undefined", value |-> left] : left \in MovedFromPayloads(val.value)}
    ELSE {val}

(* what the JSONValue argument of a call may hold after it: serialize(const *)
(* T&) only reads it; serialize(T&&) passes std::forward<T>(val) to the     *)
(* JSONValue constructor, an lvalue (copied) when T is a reference and an   *)
(* rvalue (moved from) when it is not                                       *)
ArgumentAfter(X, form, val) ==
    IF Resolve(X, form) = "implicit" /\ Deduced(X, form).ref = "none"
    THEN {[type |-> "undefined", value |-> left] : left \in MovedFromPayloads(val.value)}
    ELSE {val}

(* serialize(vals[s]), the slot passed in the given form; was is the value *)
(* of the slot when the call was made                                      *)
SerializeSlot(s, form) ==
    /\ call' = [slot |-> s, T |-> "JSONValue", form |-> form, was |-> vals[s]]
               @@ (IF Resolve("JSONValue", form) = "implicit"
                   THEN ImplicitCall("JSONValue", vals[s], FALSE)
                   ELSE DirectCall("JSONValue", vals[s]))
    /\ \E after \in ArgumentAfter("JSONValue", form, vals[s]) :
          /\ vals' = [vals EXCEPT ![s] = after]
          /\ fresh' = [fresh EXCEPT ![s] = IF after = vals[s] THEN fresh[s] ELSE TRUE]
    /\ last' = NoOp
    /\ UNCHANGED <<arg, hook>>

Next ==
    \/ \E s \in Slots : DefaultConstruct(s)
    \/ \E s \in Slots, v \in PublicValues : Construct(s, v)
    \/ \E d, s \in Slots : CopyConstruct(d, s)
    \/ \E d, s \in Slots : MoveConstruct(d, s)
    \/ \E d, s \in Slots : CopyAssign(d, s)
    \/ \E d, s \in Slots : MoveAssign(d, s)
    \/ \E s \in Slots, form \in Forms : SerializeSlot(s, form)

Spec == Init /\ [][Next]_vars

-----------------------------------------------------------------------------
(* One call serialize(x) on an argument drawn from the inputs (SpecCall).  *)

InitCall ==
    /\ vals = [s \in Slots |-> DefaultValue]
    /\ fresh = [s \in Slots |-> TRUE]
    /\ call = None
    /\ last = NoOp
    /\ hook = NoHook
    /\ \E form \in Forms :
          \/ \E v \in LiteralInputs : arg = Argument("LiteralType", form, v, FALSE)
          \/ \E v \in NumberInputs : arg = Argument("NumberType", form, v, FALSE)
          \/ \E v \in Strings : arg = Argument("StringType", form, v, FALSE)
          \/ \E v \in Arrays : arg = Argument("ArrayType", form, v, FALSE)
          \/ \E v \in Objects : arg = Argument("ObjectType", form, v, FALSE)
          \/ \E v \in ElementValues : arg = Argument("JSONValue", form, v, FALSE)
          \/ \E v \in Examples : arg = Argument("Example", form, v, FALSE)
          \/ \E v \in BOOLEAN : arg = Argument("bool", form, v, FALSE)
          \/ \E X \in IntegerTypes, v \in IntegerInputs :
                (X = "int" \/ v >= 0) /\ arg = Argument(X, form, v, FALSE)
          \/ \E X \in FloatingTypes, v \in NumberInputs : arg = Argument(X, form, v, FALSE)
          \/ \E v \in CharPtrs : arg = Argument("CharPtr", form, v, FALSE)
          \/ \E v \in ExampleNames, throws \in BOOLEAN :
                arg = Argument("Convertible", form, v, throws)
          \/ arg = Argument("Opaque", form, <<>>, FALSE)

(* the call resolves to serialize(const T&) *)
SerializeDirect ==
    /\ call = None
    /\ Resolve(arg.T, arg.form) = "direct"
    /\ call' = DirectCall(arg.T, arg.v)
    /\ UNCHANGED <<vals, fresh, arg, last, hook>>

(* the call resolves to serialize(T&&) *)
SerializeImplicit ==
    /\ call = None
    /\ Resolve(arg.T, arg.form) = "implicit"
    /\ call' = ImplicitCall(arg.T, arg.v, arg.throws)
    /\ UNCHANGED <<vals, fresh, arg, last, hook>>

(* neither overload of serialize is enabled for the argument's type: the  *)
(* call does not compile, and nothing runs                                *)
Rejected == [path |-> "rejected"]

RejectStatically ==
    /\ call = None
    /\ Resolve(arg.T, arg.form) = "rejected"
    /\ call' = Rejected
    /\ UNCHANGED <<vals, fresh, arg, last, hook>>

NextCall == SerializeDirect \/ SerializeImplicit \/ RejectStatically

SpecCall == InitCall /\ [][NextCall]_vars

-----------------------------------------------------------------------------
(* The pre-push script (SpecHook).  hook is [pc, tests, docs, index, cwd,  *)
(* out, exit]: tests is the tests executable of the build outputs          *)
(* (whether it exists, and the status it exits with), docs is what ./docs  *)
(* is at the root of the project, index whether ./docs/index.html exists,  *)
(* cwd the working directory, out the lines echoed so far, exit the        *)
(* script's exit status once it has one.                                   *)

FoundTests == "Found tests. Running..."

TestsFailedLine == "Tests failed. Aborting push."

TestsPassedLine == "Tests passed."

DocsNotFound == "Documentation not found. Aborting push."

DocsExist == "Documentation exists. Good to push!"

Statuses == 0..MaxStatus

TestsInputs == {[exists |-> FALSE, status |-> 0]}
               \cup {[exists |-> TRUE, status |-> n] : n \in Statuses}

InitHook ==
    /\ vals = [s \in Slots |-> DefaultValue]
    /\ fresh = [s \in Slots |-> TRUE]
    /\ arg = None
    /\ call = None
    /\ last = NoOp
    /\ \E tests \in TestsInputs, docs \in {"absent", "file", "dir"}, index \in BOOLEAN :
          /\ index => docs = "dir"
          /\ hook = [pc |-> "tests_check", tests |-> tests, docs |-> docs, index |-> index,
                     cwd |-> "root", out |-> <<>>, exit |-> <<>>]

(* [ -e "./build/bin/Windows/Release/tests.exe" ] *)
FindTests ==
    /\ hook.pc = "tests_check"
    /\ hook' = IF hook.cwd = "root" /\ hook.tests.exists
               THEN [hook EXCEPT !.pc = "cd_release", !.out = Append(@, FoundTests)]
               ELSE [hook EXCEPT !.pc = "docs_check"]
    /\ UNCHANGED <<vals, fresh, arg, call, last>>

(* cd ./build/bin/Windows/Release; "./tests.exe" *)
RunTests ==
    /\ hook.pc = "cd_release"
    /\ hook' = [hook EXCEPT !.pc = "tests_ran", !.cwd = "release"]
    /\ UNCHANGED <<vals, fresh, arg, call, last>>

(* [ $? -ne 0 ]: echo, exit 1 *)
TestsFailed ==
    /\ hook.pc = "tests_ran"
    /\ hook.tests.status # 0
    /\ hook' = [hook EXCEPT !.pc = "exited", !.out = Append(@, TestsFailedLine),
                            !.exit = <<1>>]
    /\ UNCHANGED <<vals, fresh, arg, call, last>>

(* TestsPassed without cd ../../../.. *)
TestsPassed_StaysInRelease ==
    /\ hook.pc = "tests_ran"
    /\ hook.tests.status = 0
    /\ hook' = [hook EXCEPT !.pc = "docs_check", !.out = Append(@, TestsPassedLine)]
    /\ UNCHANGED <<vals, fresh, arg, call, last>>

(* echo "Tests passed."; cd ../../../.. *)
TestsPassed ==
    /\ hook.pc = "tests_ran"
    /\ hook.tests.status = 0
    /\ hook' = [hook EXCEPT !.pc = "docs_check", !.out = Append(@, TestsPassedLine),
                            !.cwd = "root"]
    /\ UNCHANGED <<vals, fresh, arg, call, last>>

(* [ -e path ] for a path below the root of the project, as the script    *)
(* writes it: relative to the working directory                           *)
DocsSeen == hook.cwd = "root" /\ hook.docs # "absent"

IndexSeen == hook.cwd = "root" /\ hook.index

(* [ ! -e "./docs" ] || [ ! -e "./docs/index.html" ]: echo, exit 1 *)
DocsMissing ==
    /\ hook.pc = "docs_check"
    /\ ~DocsSeen \/ ~IndexSeen
    /\ hook' = [hook EXCEPT !.pc = "exited", !.out = Append(@, DocsNotFound),
                            !.exit = <<1>>]
    /\ UNCHANGED <<vals, fresh, arg, call, last>>

(* echo "Documentation exists. Good to push!"; exit 0 *)
DocsFound ==
    /\ hook.pc = "docs_check"
    /\ ~(~DocsSeen \/ ~IndexSeen)
    /\ hook' = [hook EXCEPT !.pc = "exited", !.out = Append(@, DocsExist),
                            !.exit = <<0>>]
    /\ UNCHANGED <<vals, fresh, arg, call, last>>

NextHook == FindTests \/ RunTests \/ TestsFailed \/ TestsPassed \/ DocsMissing \/ DocsFound

SpecHook == InitHook /\ [][NextHook]_vars

-----------------------------------------------------------------------------
(* Helpers of the properties.                                              *)

RECURSIVE Join(_, _)
Join(texts, sep) ==
    IF texts = <<>> THEN <<>>
    ELSE IF Len(texts) = 1 THEN texts[1]
    ELSE texts[1] \o sep \o Join(Tail(texts), sep)

RECURSIVE Concat(_)
Concat(texts) == IF texts = <<>> THEN <<>> ELSE Head(texts) \o Concat(Tail(texts))

IsDefined(v) == v.type # "undefined"

HasDefinedValue(e) == e.value.type # "undefined"

NamedEscapes == {Backslash, Quote, Newline, CarriageReturn, Tab, FormFeed, Backspace}

(* the escape of one character, as the specification states it *)
esc(c) ==
    CASE c = Backslash -> <<Backslash, Backslash>>
      [] c = Quote -> <<Backslash, Quote>>
      [] c = Newline -> <<Backslash, 110>>
      [] c = CarriageReturn -> <<Backslash, 114>>
      [] c = Tab -> <<Backslash, 116>>
      [] c = FormFeed -> <<Backslash, 102>>
      [] c = Backspace -> <<Backslash, 98>>
      [] OTHER -> <<c>>

HexDigit(d, upper) == IF d < 10 THEN Digit0 + d ELSE (IF upper THEN 55 ELSE 87) + d

(* \u00XX *)
UnicodeEscape(c, upper) ==
    <<Backslash, 117, Digit0, Digit0, HexDigit(c \div 16, upper), HexDigit(c % 16, upper)>>

IsControl(c) == c >= 0 /\ c < 32

escControl(c, upper) ==
    IF IsControl(c) /\ c \notin NamedEscapes THEN UnicodeEscape(c, upper) ELSE esc(c)

Called(X) == call # None /\ arg # None /\ arg.T = X

-----------------------------------------------------------------------------
(* C1: a JSONValue that is default constructed, or was most recently the   *)
(* source of a move, has type undefined, and serialize of it completes     *)
(* with the empty text (never "null").                                     *)
C1_FreshIsUndefinedAndEmpty ==
    /\ \A s \in Slots : fresh[s] => vals[s].type = "undefined"
    /\ \A s \in Slots : fresh[s] => serialize("JSONValue", vals[s]).text = <<>>
    /\ (call # None /\ fresh[call.slot]) =>
          call.completed /\ call.text = <<>> /\ call.text # NullText

(* a moved-from string was serialized *)
C1_Witness ==
    /\ call # None
    /\ fresh[call.slot]
    /\ vals[call.slot].value.alt = "string"
    /\ \E d \in Slots : d # call.slot /\ vals[d].type = "string"

(* something is thrown while the argument of the call is converted: by the *)
(* construction of the JSONValue, or by the implementation called         *)
ThrownWhileConverting ==
    IF call.path = "rejected" THEN FALSE
    ELSE IF call.path = "implicit"
    THEN arg.throws \/ serializer("JSONValue", MakeValue(arg.T, arg.v)).thrown
    ELSE serializer(arg.T, arg.v).thrown

(* C2: on either dispatch path, whenever something is thrown while the     *)
(* argument is converted, the call returns the empty text, a diagnostic    *)
(* is emitted and the caller continues.                                    *)
C2_NeverRaises ==
    (call # None /\ arg # None /\ ThrownWhileConverting) =>
        call.completed /\ call.text = <<>> /\ call.diags >= 1

(* C3: for the user-registered Example, serialize returns exactly the text *)
(* the registered conversion returns, and the empty text when the          *)
(* conversion signals failure (an empty name).                             *)
C3_ExampleText ==
    Called("Example") =>
        LET r == Example_impl(arg.v)
        IN  /\ call.completed
            /\ call.path = "direct"
            /\ r.thrown <=> arg.v.name = <<>>
            /\ r.thrown => call.text = <<>>
            /\ ~r.thrown => call.text = r.text
            /\ (arg.v.name = <<97>> /\ arg.v.parent.null) =>
                  call.text = <<LBrace, Space, Quote, 110, 97, 109, 101, Quote, Space, Colon,
                                Space, Quote, 97, Quote, Comma, Space, Quote, 112, 97, 114,
                                101, 110, 116, Quote, Space, Colon, Space, 110, 117, 108, 108,
                                Space, RBrace>>

(* an Example with an empty name, and one with a name, were serialized *)
C3_WitnessInvalid == Called("Example") /\ arg.v.name = <<>> /\ call.text = <<>>

C3_Witness == Called("Example") /\ arg.v.name # <<>> /\ ~arg.v.parent.null /\ call.text # <<>>

(* C4: serialize(array) is "[ ]" when no element is retained and otherwise *)
(* "[ " r1 ", " ... ", " rk " ]", r1..rk the texts of the elements whose   *)
(* type is not undefined, in input order.                                  *)
C4_ArrayText ==
    Called("ArrayType") =>
        LET kept == SelectSeq(arg.v, IsDefined)
            texts == [i \in 1..Len(kept) |-> serialize("JSONValue", kept[i]).text]
        IN  /\ call.completed
            /\ call.text = IF Len(kept) = 0 THEN <<LBracket, Space, RBracket>>
                           ELSE <<LBracket, Space>> \o Join(texts, <<Comma, Space>>)
                                \o <<Space, RBracket>>

(* undefined elements first and last, around a retained one *)
C4_Witness ==
    /\ Called("ArrayType")
    /\ Len(arg.v) = 3
    /\ ~IsDefined(arg.v[1]) /\ IsDefined(arg.v[2]) /\ ~IsDefined(arg.v[3])
    /\ call.text = <<LBracket, Space>> \o TrueText \o <<Space, RBracket>>

(* C5: serialize(object) is "{ " entries joined by ", " " }", or "{ }",    *)
(* the entries being serialize(key) " : " serialize(value) for exactly the *)
(* entries whose value is not undefined.                                   *)
C5_ObjectText ==
    Called("ObjectType") =>
        LET kept == SelectSeq(arg.v, HasDefinedValue)
            texts == [i \in 1..Len(kept) |->
                        serialize("StringType", kept[i].key).text \o <<Space, Colon, Space>>
                        \o serialize("JSONValue", kept[i].value).text]
        IN  /\ call.completed
            /\ call.text = IF Len(kept) = 0 THEN <<LBrace, Space, RBrace>>
                           ELSE <<LBrace, Space>> \o Join(texts, <<Comma, Space>>)
                                \o <<Space, RBrace>>

(* an entry with an undefined value before a retained entry *)
C5_Witness ==
    /\ Called("ObjectType")
    /\ Len(arg.v) = 2
    /\ ~HasDefinedValue(arg.v[1]) /\ HasDefinedValue(arg.v[2])
    /\ call.text # <<LBrace, Space, RBrace>>

(* C6: for a string of named special characters and non-control            *)
(* characters, serialize is a quote, the escapes of the characters in      *)
(* order, and a quote: no pass escapes a backslash another pass wrote.     *)
C6_StringText ==
    (Called("StringType") /\ \A i \in 1..Len(arg.v) : ~IsControl(arg.v[i]) \/ arg.v[i] \in NamedEscapes) =>
        /\ call.completed
        /\ call.text = <<Quote>> \o Concat([i \in 1..Len(arg.v) |-> esc(arg.v[i])]) \o <<Quote>>

(* a backslash followed by the letter n, and a newline, in one string *)
C6_Witness ==
    /\ Called("StringType")
    /\ arg.v = <<Backslash, 110, Newline>>
    /\ call.text = <<Quote, Backslash, Backslash, 110, Backslash, 110, Quote>>

(* C7: every control character 0x00-0x1F that has no named escape is       *)
(* rendered \u00XX, and no raw control character appears in the text.      *)
C7_ControlEscaped ==
    Called("StringType") =>
        /\ \A i \in 1..Len(call.text) : ~IsControl(call.text[i])
        /\ \E upper \in BOOLEAN :
              call.text = <<Quote>>
                          \o Concat([i \in 1..Len(arg.v) |-> escControl(arg.v[i], upper)])
                          \o <<Quote>>

(* C8: serialize of a literal is "null", "true" or "false", and the empty  *)
(* text for any other state of the literal.                                *)
C8_LiteralText ==
    Called("LiteralType") =>
        /\ call.completed
        /\ call.text = CASE arg.v = "null_v" -> NullText
                         [] arg.v = "true_v" -> TrueText
                         [] arg.v = "false_v" -> FalseText
                         [] OTHER -> <<>>
        /\ arg.v \notin JSONLiteralType => call.diags >= 1

(* a literal outside the three values was serialized *)
C8_Witness == Called("LiteralType") /\ arg.v \notin JSONLiteralType /\ call.text = <<>>

(* C9: serialize(b) of a bool takes the implicit path and equals serialize *)
(* of the literal: "true" for true and "false" for false.                  *)
C9_BoolText ==
    Called("bool") =>
        /\ call.completed
        /\ call.path = "implicit"
        /\ call.text = serialize("LiteralType", IF arg.v THEN "true_v" ELSE "false_v").text
        /\ call.text = IF arg.v THEN TrueText ELSE FalseText

C9_Witness == Called("bool") /\ arg.v /\ call.text = TrueText

(* C10: serialize(x) of an arithmetic x equals serialize(NumberType(x)):   *)
(* an integer 3 of any integer type gives the text of 3.0.                 *)
C10_ArithmeticText ==
    (call # None /\ arg # None /\ arg.T \in ArithmeticTypes) =>
        /\ call.completed
        /\ call.text = serialize("NumberType", IF arg.T \in IntegerTypes THEN 4 * arg.v ELSE arg.v).text
        /\ (arg.T \in IntegerTypes /\ arg.v = 3) => call.text = <<Digit0 + 3>>
        /\ (arg.T \in FloatingTypes /\ arg.v = 12) => call.text = <<Digit0 + 3>>

(* an unsigned 3 and a float with a fraction were serialized *)
C10_WitnessUnsigned == call # None /\ arg # None /\ arg.T = "unsigned" /\ arg.v = 3

C10_Witness ==
    /\ call # None /\ arg # None
    /\ arg.T = "float" /\ arg.v = 13
    /\ call.text = <<Digit0 + 3, Dot, Digit0 + 2, Digit0 + 5>>

-----------------------------------------------------------------------------
(* The type-level predicates and the overload a call resolves to.          *)

BuiltinVariants == {"LiteralType", "NumberType", "StringType", "ArrayType", "ObjectType"}

UserRegistered == {"Example"}

ImplicitOnly == {"bool", "CharPtr", "Convertible"} \cup ArithmeticTypes

Plain(X) == [name |-> X, ref |-> "none"]

C12_DirectWins ==
    (call # None /\ arg # None /\ arg.T \in Registered \cap Constructible) =>
        call.path = "direct"

(* C13: for a type with neither a registration nor a conversion to a       *)
(* JSONValue, serialize is rejected statically: no call runs, and neither  *)
(* a text (empty or not) nor a diagnostic is produced.                     *)
C13_RejectedStatically ==
    (arg # None /\ arg.T \notin Registered \cup Constructible) =>
        /\ ~is_json_serializable_v(Plain(arg.T))
        /\ \A form \in Forms : ~converts_to_json_value_v(Deduced(arg.T, form))
        /\ Resolve(arg.T, arg.form) = "rejected"
        /\ call # None => call = Rejected

(* the call on a non-const lvalue of the unregistered type was rejected *)
C13_Witness ==
    /\ arg # None /\ arg.T = "Opaque" /\ arg.form = "lvalue"
    /\ call = Rejected

-----------------------------------------------------------------------------
(* Copies and moves.                                                       *)

Copied == last.op \in {"CopyConstruct", "CopyAssign"}

Moved == last.op \in {"MoveConstruct", "MoveAssign"}

(* C14: after a copy construction or a copy assignment the destination     *)
(* has the type and the payload the source had, the source is unchanged,   *)
(* and serialize of the copy equals serialize of the source, an undefined  *)
(* source included.                                                        *)
C14_CopyPreserves ==
    Copied =>
        /\ vals[last.d] = last.was
        /\ vals[last.s] = last.was
        /\ serialize("JSONValue", vals[last.d]) = serialize("JSONValue", vals[last.s])
        /\ serialize("JSONValue", vals[last.d]) = serialize("JSONValue", last.was)
        /\ last.was.type = "undefined" =>
              serialize("JSONValue", vals[last.d]).text = <<>>

(* an undefined value was copy assigned to another slot *)
C14_WitnessUndefined ==
    /\ last.op = "CopyAssign" /\ last.d # last.s
    /\ last.was = DefaultValue /\ vals[last.d] = DefaultValue

(* an array was copy constructed *)
C14_Witness ==
    /\ last.op = "CopyConstruct"
    /\ last.was.type = "array"
    /\ vals[last.d] = last.was /\ vals[last.s] = last.was

(* C15: after a move construction or a move assignment from a distinct     *)
(* source the destination has exactly the type and the payload the source  *)
(* had before, and the type of the source is undefined.                    *)
C15_MoveTransfers ==
    (Moved /\ last.d # last.s) =>
        /\ vals[last.d] = last.was
        /\ vals[last.s].type = "undefined"
        /\ serialize("JSONValue", vals[last.s]).text = <<>>

(* an object was move assigned to another slot *)
C15_Witness ==
    /\ last.op = "MoveAssign" /\ last.d # last.s
    /\ last.was.type = "object"
    /\ vals[last.d] = last.was /\ vals[last.s].type = "undefined"

-----------------------------------------------------------------------------
(* The text of a JSONValue built by the public constructors.               *)

(* the JSONValue a call is about: the argument itself, or the one the      *)
(* constructors build from it                                              *)
Built == IF arg.T = "JSONValue" THEN arg.v ELSE MakeValue(arg.T, arg.v)

SerializedBuilt ==
    /\ call # None /\ arg # None
    /\ arg.T \in Constructible
    /\ call.completed
    /\ Built.type # "undefined"
    /\ Built.value.alt = Built.type

NonEmptyText ==
    /\ call.text # <<>>
    /\ call.text = serialize("JSONValue", Built).text
    /\ Built.type = "string" =>
          /\ Len(call.text) >= 2
          /\ Head(call.text) = Quote /\ call.text[Len(call.text)] = Quote
          /\ Built.value.v = <<>> => call.text = <<Quote, Quote>>
    /\ Built.type = "array" =>
          /\ Len(call.text) >= 3
          /\ Head(call.text) = LBracket /\ call.text[Len(call.text)] = RBracket
          /\ Built.value.v = <<>> => call.text = <<LBracket, Space, RBracket>>
    /\ Built.type = "object" =>
          /\ Len(call.text) >= 3
          /\ Head(call.text) = LBrace /\ call.text[Len(call.text)] = RBrace
          /\ Built.value.v = <<>> => call.text = <<LBrace, Space, RBrace>>

(* C16 (as stated): for every JSONValue built through the public           *)
(* constructors whose type is literal, number, string, array or object,    *)
(* serialize returns a non-empty text.                                     *)
C16_NonEmptyForEveryKind == SerializedBuilt => NonEmptyText

(* C16 (amended): serialize returns the empty text only for type undefined *)
(* or when a conversion signalled a failure: for every JSONValue built     *)
(* through the public constructors whose type is number, string, array or  *)
(* object, or literal with one of the three enumerators, serialize returns *)
(* a non-empty text (at least "", [ ] or { } with their quotes, brackets   *)
(* and braces).                                                            *)
C16_NonEmptyUnlessFailure ==
    (SerializedBuilt
       /\ (Built.type = "literal" => Built.value.v \in JSONLiteralType))
        => NonEmptyText

(* the empty string, built from a non-const lvalue, was serialized *)
C16_Witness ==
    /\ Called("StringType") /\ arg.form = "lvalue" /\ arg.v = <<>>
    /\ call.path = "implicit"
    /\ call.text = <<Quote, Quote>>

-----------------------------------------------------------------------------
(* Char pointers, keys, and children that fail to serialize.               *)

(* C17: serialize(p) of a char pointer p equals serialize of the string of *)
(* the characters p points to; a null pointer is the empty string: the     *)
(* JSONValue built has type string, not undefined, and the text is the     *)
(* empty quoted string.                                                    *)
C17_CharPtrText ==
    Called("CharPtr") =>
        LET chars == IF arg.v.null THEN <<>> ELSE arg.v.text
        IN  /\ call.completed
            /\ call.path = "implicit"
            /\ MakeValue("CharPtr", arg.v).type = "string"
            /\ MakeValue("CharPtr", arg.v) = MakeValue("StringType", chars)
            /\ call.text = DirectCall("StringType", chars).text
            /\ arg.v.null => call.text = <<Quote, Quote>>

(* a null pointer was serialized *)
C17_WitnessNull == Called("CharPtr") /\ arg.v.null /\ call.text = <<Quote, Quote>>

(* a pointer to a text with a quote in it was serialized *)
C17_Witness ==
    /\ Called("CharPtr") /\ ~arg.v.null /\ arg.v.text = <<97, Quote>>
    /\ call.text = <<Quote, 97, Backslash, Quote, Quote>>

(* the text of a key: the text of the string, quoted and escaped *)
KeyText(k) == <<Quote>> \o Concat([i \in 1..Len(k) |-> esc(k[i])]) \o <<Quote>>

(* C18: every key of an object is rendered as a string value is: the text  *)
(* of the key in the object's text is serialize of the key as a string,    *)
(* with its quotes and escapes.                                            *)
C18_KeyText ==
    Called("ObjectType") =>
        LET kept == SelectSeq(arg.v, HasDefinedValue)
            texts == [i \in 1..Len(kept) |->
                        KeyText(kept[i].key) \o <<Space, Colon, Space>>
                        \o serialize("JSONValue", kept[i].value).text]
        IN  /\ \A i \in 1..Len(arg.v) :
                  /\ serialize("StringType", arg.v[i].key).text = KeyText(arg.v[i].key)
                  /\ serialize("JSONValue", FromString(arg.v[i].key)).text
                        = KeyText(arg.v[i].key)
            /\ call.text = <<LBrace>> \o Concat([i \in 1..Len(kept) |->
                                (IF i = 1 THEN <<>> ELSE <<Comma>>) \o <<Space>> \o texts[i]])
                            \o <<Space, RBrace>>

(* an object with a quote as a key and one with a backslash in a key *)
C18_WitnessQuote ==
    /\ Called("ObjectType") /\ Len(arg.v) = 1
    /\ arg.v[1].key = <<Quote>> /\ arg.v[1].value = FromLiteral("false_v")
    /\ call.text = <<LBrace, Space, Quote, Backslash, Quote, Quote, Space, Colon, Space>>
                    \o FalseText \o <<Space, RBrace>>

C18_Witness ==
    /\ Called("ObjectType") /\ Len(arg.v) = 2
    /\ arg.v[1].key = <<Backslash, Newline>> /\ HasDefinedValue(arg.v[1])
    /\ arg.v[2].key = <<97>> /\ HasDefinedValue(arg.v[2])

(* a child whose type is not undefined and whose serialization fails: an   *)
(* invalid literal, or a type that disagrees with the payload              *)
Failing(v) ==
    /\ v.type # "undefined"
    /\ \/ v.value.alt # v.type
       \/ v.type = "literal" /\ v.value.v \notin JSONLiteralType

SlotText(v) == IF Failing(v) THEN <<>> ELSE serialize("JSONValue", v).text

(* C19: a container with a child whose type is not undefined and whose     *)
(* serialization fails still completes: the failing child has a slot with  *)
(* the empty text (its separator, and in an object its key and " : ",      *)
(* still written), and the text of every other retained child is           *)
(* unchanged and in order.                                                 *)
C19_FailedChildKeepsSlot ==
    /\ Called("ArrayType") =>
          LET kept == SelectSeq(arg.v, IsDefined)
              slots == [i \in 1..Len(kept) |-> SlotText(kept[i])]
          IN  /\ call.completed
              /\ \A i \in 1..Len(kept) :
                    /\ Failing(kept[i]) <=> serialize("JSONValue", kept[i]).text = <<>>
                    /\ Failing(kept[i]) => serialize("JSONValue", kept[i]).diags >= 1
              /\ call.text = IF Len(kept) = 0 THEN <<LBracket, Space, RBracket>>
                             ELSE <<LBracket, Space>> \o Join(slots, <<Comma, Space>>)
                                  \o <<Space, RBracket>>
    /\ Called("ObjectType") =>
          LET kept == SelectSeq(arg.v, HasDefinedValue)
              slots == [i \in 1..Len(kept) |->
                          serialize("StringType", kept[i].key).text
                          \o <<Space, Colon, Space>> \o SlotText(kept[i].value)]
          IN  /\ call.completed
              /\ call.text = IF Len(kept) = 0 THEN <<LBrace, Space, RBrace>>
                             ELSE <<LBrace, Space>> \o Join(slots, <<Comma, Space>>)
                                  \o <<Space, RBrace>>

(* an object whose only entry has a failing value *)
C19_WitnessObject ==
    /\ Called("ObjectType") /\ Len(arg.v) = 1
    /\ arg.v[1].key = <<97>> /\ arg.v[1].value = Mismatched
    /\ call.text = <<LBrace, Space, Quote, 97, Quote, Space, Colon, Space, Space, RBrace>>

(* an array with a failing child between two that serialize *)
C19_Witness ==
    /\ Called("ArrayType") /\ Len(arg.v) = 3
    /\ arg.v[1] = FromLiteral("true_v")
    /\ arg.v[2] = FromLiteral("invalid")
    /\ arg.v[3] = FromNumber(13)
    /\ call.completed /\ call.diags >= 1
    /\ call.text = <<LBracket, Space>> \o TrueText \o <<Comma, Space, Comma, Space>>
                    \o serialize("NumberType", 13).text \o <<Space, RBracket>>

Serializes(v) == IsDefined(v) /\ ~Failing(v)

HasSerializingValue(e) == Serializes(e.value)

(* C20: a child that fails to serialize is dropped from the text of its    *)
(* container as an undefined child is: the text of an array or an object   *)
(* never holds an empty placeholder for it.                                *)
C20_FailedChildDropped ==
    /\ Called("ArrayType") =>
          LET kept == SelectSeq(arg.v, Serializes)
              texts == [i \in 1..Len(kept) |-> serialize("JSONValue", kept[i]).text]
          IN  call.text = IF Len(kept) = 0 THEN <<LBracket, Space, RBracket>>
                          ELSE <<LBracket, Space>> \o Join(texts, <<Comma, Space>>)
                               \o <<Space, RBracket>>
    /\ Called("ObjectType") =>
          LET kept == SelectSeq(arg.v, HasSerializingValue)
              texts == [i \in 1..Len(kept) |->
                          serialize("StringType", kept[i].key).text
                          \o <<Space, Colon, Space>>
                          \o serialize("JSONValue", kept[i].value).text]
          IN  call.text = IF Len(kept) = 0 THEN <<LBrace, Space, RBrace>>
                          ELSE <<LBrace, Space>> \o Join(texts, <<Comma, Space>>)
                               \o <<Space, RBrace>>

-----------------------------------------------------------------------------
(* The events of a call.                                                   *)

Count(trace, e) == Cardinality({i \in 1..Len(trace) : trace[i].e = e})

CountOf(trace, e, T) ==
    Cardinality({i \in 1..Len(trace) : trace[i].e = e /\ trace[i].T = T})

(* the calls that are entered and not yet left after the first n events,   *)
(* innermost last                                                          *)
RECURSIVE Open(_, _)
Open(trace, n) ==
    IF n = 0 THEN <<>>
    ELSE LET before == Open(trace, n - 1)
         IN  CASE trace[n].e = "call" -> Append(before, trace[n].T)
               [] trace[n].e = "return" -> SubSeq(before, 1, Len(before) - 1)
               [] OTHER -> before

Max(S) == IF S = {} THEN 0 ELSE CHOOSE m \in S : \A n \in S : n <= m

(* the largest number of calls open at once from event i on, open of them *)
(* being open before it; with only, the calls on JSONValues alone          *)
RECURSIVE Deepest(_, _, _, _)
Deepest(trace, i, open, only) ==
    IF i > Len(trace) THEN open
    ELSE LET counted == ~only \/ trace[i].T = "JSONValue"
             now == CASE trace[i].e = "call" /\ counted -> open + 1
                      [] trace[i].e = "return" /\ counted -> open - 1
                      [] OTHER -> open
             later == Deepest(trace, i + 1, now, only)
         IN  IF open > later THEN open ELSE later

Depth(trace) == Deepest(trace, 1, 0, FALSE)

ValueDepth(trace) == Deepest(trace, 1, 0, TRUE)

RECURSIVE Sum(_)
Sum(numbers) == IF numbers = <<>> THEN 0 ELSE Head(numbers) + Sum(Tail(numbers))

(* on the implicit path the argument is serialized as the JSONValue built  *)
(* from it: serialize<JSONValue> is around the events of the argument      *)
TraceOf(T, children) ==
    LET own == <<Event("call", T)>> \o Concat(children) \o <<Event("return", T)>>
    IN  IF call.path = "implicit"
        THEN <<Event("call", "JSONValue")>> \o own \o <<Event("return", "JSONValue")>>
        ELSE own

(* C21: the array and object conversions test the type of a child before   *)
(* they call serialize on it: for an undefined child no call is made,      *)
(* nothing is thrown and no diagnostic is written, whereas serialize of    *)
(* the same undefined JSONValue on its own throws inside serialize and     *)
(* writes a diagnostic.                                                    *)
C21_KindCheckedBeforeCall ==
    /\ Called("ArrayType") =>
          LET kept == SelectSeq(arg.v, IsDefined)
          IN  /\ call.trace = TraceOf("ArrayType",
                      [i \in 1..Len(kept) |-> Events("JSONValue", kept[i])])
              /\ call.diags = Sum([i \in 1..Len(kept) |-> serialize("JSONValue", kept[i]).diags])
              /\ Len(kept) = 0 =>
                    /\ Count(call.trace, "call") = IF call.path = "implicit" THEN 2 ELSE 1
                    /\ Count(call.trace, "throw") = 0
                    /\ call.diags = 0
    /\ Called("ObjectType") =>
          LET kept == SelectSeq(arg.v, HasDefinedValue)
          IN  /\ call.trace = TraceOf("ObjectType",
                      [i \in 1..Len(kept) |->
                          Events("JSONValue", FromString(kept[i].key))
                          \o Events("JSONValue", kept[i].value)])
              /\ Len(kept) = 0 =>
                    /\ Count(call.trace, "call") = IF call.path = "implicit" THEN 2 ELSE 1
                    /\ Count(call.trace, "throw") = 0
                    /\ call.diags = 0
    /\ (Called("JSONValue") /\ arg.v.type = "undefined") =>
          /\ call.text = <<>>
          /\ call.diags = 1
          /\ call.trace = <<Event("call", "JSONValue"), Event("throw", "JSONValue"),
                            Event("catch", "JSONValue"), Event("log", "JSONValue"),
                            Event("return", "JSONValue")>>

(* an undefined JSONValue was serialized on its own *)
C21_WitnessStandalone ==
    Called("JSONValue") /\ arg.v = DefaultValue /\ call.diags = 1

(* an array of undefined JSONValues only was serialized *)
C21_Witness ==
    /\ Called("ArrayType") /\ Len(arg.v) = 2
    /\ arg.v[1] = DefaultValue /\ arg.v[2].type = "undefined" /\ arg.v[2] # DefaultValue
    /\ call.path = "direct"
    /\ call.diags = 0 /\ Len(call.trace) = 2

(* C22: what a conversion throws is caught exactly once, by the serialize  *)
(* call that invoked it: that call writes exactly one diagnostic and       *)
(* returns the empty text, and every serialize call around it gets an      *)
(* ordinary result and neither catches nor logs anything for it.           *)
C22_CaughtOnceAtNearest ==
    (call # None /\ arg # None /\ arg.T \in Registered \cup Constructible /\ call.completed) =>
        LET trace == call.trace
        IN  /\ \A i \in 1..Len(trace) :
                  /\ trace[i].e = "throw" =>
                        /\ i + 3 <= Len(trace)
                        /\ Open(trace, i)[Len(Open(trace, i))] = trace[i].T
                        /\ trace[i + 1] = Event("catch", trace[i].T)
                        /\ trace[i + 2] = Event("log", trace[i].T)
                        /\ trace[i + 3] = Event("return", trace[i].T)
                  /\ trace[i].e = "catch" => trace[i - 1] = Event("throw", trace[i].T)
                  /\ trace[i].e = "log" => trace[i - 1] = Event("catch", trace[i].T)
            /\ Count(trace, "throw") = call.diags
            /\ Count(trace, "catch") = call.diags
            /\ Count(trace, "log") = call.diags
            /\ arg.T \in {"ArrayType", "ObjectType"} =>
                  /\ CountOf(trace, "catch", arg.T) = 0
                  /\ call.text # <<>>
            /\ (call.path = "direct" /\ ~serializer(arg.T, arg.v).thrown) =>
                  trace[Len(trace) - 1].e # "log"

(* an array with a failing child between two that serialize: one throw,    *)
(* one diagnostic, and the array's text around the empty slot              *)
C22_Witness ==
    /\ Called("ArrayType") /\ Len(arg.v) = 3
    /\ arg.v[1] = FromLiteral("true_v")
    /\ arg.v[2] = FromLiteral("invalid")
    /\ arg.v[3] = FromNumber(13)
    /\ Count(call.trace, "throw") = 1 /\ call.diags = 1
    /\ CountOf(call.trace, "catch", "LiteralType") = 1
    /\ call.text # <<>>

(* the number of serialize calls on JSONValues that serialize of val       *)
(* makes: one for every retained element and one for every key of a        *)
(* retained entry, at every level                                          *)
RECURSIVE Retained(_, _)
Retained(T, val) ==
    CASE T = "ArrayType" ->
            Sum([i \in 1..Len(val) |->
                    IF IsDefined(val[i]) THEN 1 + Retained("JSONValue", val[i]) ELSE 0])
      [] T = "ObjectType" ->
            Sum([i \in 1..Len(val) |->
                    IF HasDefinedValue(val[i]) THEN 2 + Retained("JSONValue", val[i].value)
                    ELSE 0])
      [] T = "JSONValue" ->
            IF val.type \in {"array", "object"} /\ val.value.alt = val.type
            THEN Retained(IF val.type = "array" THEN "ArrayType" ELSE "ObjectType", val.value.v)
            ELSE 0
      [] OTHER -> 0

(* the nesting depth of a value: 1 for a JSONValue, plus the deepest child *)
RECURSIVE Nesting(_, _)
Nesting(T, val) ==
    CASE T = "ArrayType" -> Max({Nesting("JSONValue", val[i]) : i \in 1..Len(val)})
      [] T = "ObjectType" ->
            Max({Nesting("JSONValue", val[i].value) : i \in 1..Len(val)}
                \cup {1 : i \in 1..Len(val)})
      [] T = "JSONValue" ->
            IF val.type \in {"array", "object"} /\ val.value.alt = val.type
            THEN 1 + Nesting(IF val.type = "array" THEN "ArrayType" ELSE "ObjectType",
                             val.value.v)
            ELSE 1
      [] OTHER -> 0

(* C23: serialize terminates for every finite value: every call entered    *)
(* returns, serialize is called on one JSONValue for every retained        *)
(* element and one for every key, and the depth of the nested calls is     *)
(* bounded by the nesting depth of the value.                              *)
C23_BoundedCalls ==
    (call # None /\ arg # None /\ arg.T \in {"JSONValue", "ArrayType", "ObjectType"}) =>
        LET trace == call.trace
            T == IF call.path = "implicit" THEN "JSONValue" ELSE arg.T
            val == IF call.path = "implicit" THEN MakeValue(arg.T, arg.v) ELSE arg.v
            root == IF T = "JSONValue" THEN 1 ELSE 0
        IN  /\ call.completed
            /\ Open(trace, Len(trace)) = <<>>
            /\ Count(trace, "call") = Count(trace, "return")
            /\ CountOf(trace, "call", "JSONValue") = root + Retained(T, val)
            /\ Count(trace, "call") <= 1 + 2 * (root + Retained(T, val))
            /\ ValueDepth(trace) <= Nesting(T, val)
            /\ Depth(trace) <= 1 + 2 * Nesting(T, val)

(* an array that holds an array of three and an object with a key *)
C23_Witness ==
    /\ Called("ArrayType") /\ Len(arg.v) = 3 /\ call.path = "direct"
    /\ arg.v[1] = FromArray(<<FromLiteral("null_v"), DefaultValue, FromNumber(2)>>)
    /\ arg.v[2] = FromObject(<<>>)
    /\ arg.v[3] = FromString(<<97, Quote>>)
    /\ CountOf(call.trace, "call", "JSONValue") = 5
    /\ ValueDepth(call.trace) = 2

-----------------------------------------------------------------------------
(* What a call leaves behind.                                              *)

(* C24: serialize is pure apart from the diagnostics: on both paths a call *)
(* leaves the type and the payload of its argument, nested children        *)
(* included, as they were (a JSONValue passed as a non-const lvalue is     *)
(* copied, not moved from), so serializing it again gives the same text.   *)
C24_ArgumentUnchanged ==
    call # None =>
        /\ vals[call.slot] = call.was
        /\ serialize("JSONValue", vals[call.slot]).text = call.text
        /\ call.form = "lvalue" => call.path = "implicit"
        /\ call.form # "lvalue" => call.path = "direct"

(* an array with children was serialized as a non-const lvalue *)
C24_Witness ==
    /\ call # None /\ call.form = "lvalue" /\ call.path = "implicit"
    /\ call.was.type = "array" /\ Len(call.was.value.v) = 2
    /\ vals[call.slot] = call.was
    /\ call.text # <<>>

-----------------------------------------------------------------------------
(* The pre-push script.                                                    *)

TestLines == {FoundTests, TestsFailedLine, TestsPassedLine}

DocLines == {DocsNotFound, DocsExist}

Echoed(line) == \E i \in 1..Len(hook.out) : hook.out[i] = line

(* C25: the script runs the test step before the documentation step: if    *)
(* the tests executable exists and exits non-zero the script exits 1 and   *)
(* never checks the documentation; if it is absent the test step is        *)
(* skipped; in every other case the script exits 0 exactly when            *)
(* ./docs/index.html exists and 1 when ./docs or ./docs/index.html is      *)
(* missing.                                                                *)
C25_TestsThenDocs ==
    /\ hook # NoHook =>
          /\ \A i, j \in 1..Len(hook.out) :
                (hook.out[i] \in DocLines /\ hook.out[j] \in TestLines) => j < i
          /\ (hook.pc = "docs_check" /\ hook.tests.exists) => Echoed(TestsPassedLine)
          /\ ~hook.tests.exists => \A line \in TestLines : ~Echoed(line)
    /\ (hook # NoHook /\ hook.pc = "exited") =>
          /\ (hook.tests.exists /\ hook.tests.status # 0) =>
                /\ hook.exit = <<1>>
                /\ \A line \in DocLines : ~Echoed(line)
          /\ ~(hook.tests.exists /\ hook.tests.status # 0) =>
                /\ hook.exit = <<0>> <=> hook.index
                /\ hook.exit = <<1>> <=> (hook.docs = "absent" \/ ~hook.index)
                /\ hook.exit = <<0>> => Echoed(DocsExist)
                /\ hook.exit = <<1>> => Echoed(DocsNotFound)

(* the tests failed and the push was aborted before the documentation step *)
C25_WitnessFailed ==
    /\ hook # NoHook /\ hook.pc = "exited"
    /\ hook.tests.exists /\ hook.tests.status = 2 /\ hook.index
    /\ hook.exit = <<1>>

(* the tests passed and the documentation was found *)
C25_Witness ==
    /\ hook # NoHook /\ hook.pc = "exited"
    /\ hook.tests.exists /\ hook.tests.status = 0 /\ hook.index
    /\ hook.out = <<FoundTests, TestsPassedLine, DocsExist>>
    /\ hook.exit = <<0>>

-----------------------------------------------------------------------------
(* The values a caller can hold.                                           *)

(* the type names the alternative the payload holds, in the value and in   *)
(* every child                                                             *)
RECURSIVE Agrees(_)
Agrees(v) ==
    /\ v.type # "undefined" => v.value.alt = v.type
    /\ v.value.alt = "array" => \A i \in 1..Len(v.value.v) : Agrees(v.value.v[i])
    /\ v.value.alt = "object" => \A i \in 1..Len(v.value.v) : Agrees(v.value.v[i].value)

(* C26: for every JSONValue reached through the public constructors, the   *)
(* copy and move constructors and the copy and move assignments, when the  *)
(* type is not undefined it names the alternative the payload holds, so    *)
(* the JSONValue conversion never fails on a type that disagrees with the  *)
(* payload.                                                                *)
C26_TagAgreesWithPayload ==
    /\ \A s \in Slots :
          /\ Agrees(vals[s])
          /\ serializer("JSONValue", vals[s]).thrown => vals[s].type = "undefined"
    /\ \A v \in PublicValues : Agrees(v)
    /\ \A b \in BOOLEAN : Agrees(FromBool(b))
    /\ \A T \in ArithmeticTypes : Agrees(FromArithmetic(T, 3))
    /\ \A p \in CharPtrs : Agrees(FromCharPtr(p))
    /\ call # None =>
          /\ Agrees(call.was)
          /\ CountOf(call.trace, "throw", "JSONValue") > 0 => call.was.type = "undefined"
          /\ call.was.type # "undefined" => CountOf(call.trace, "throw", "JSONValue") = 0

(* an array that two slots hold was serialized *)
C26_Witness ==
    /\ call # None /\ call.was.type = "array"
    /\ CountOf(call.trace, "throw", "JSONValue") = 0
    /\ \E s \in Slots : s # call.slot /\ vals[s] = call.was

(* C27: move assigning a JSONValue to itself leaves it with type           *)
(* undefined whatever it held: serialize of it returns the empty text, and *)
(* a container that holds it leaves it out.                                *)
C27_SelfMoveUndefined ==
    (last.op = "MoveAssign" /\ last.d = last.s) =>
        LET v == vals[last.d]
        IN  /\ v.type = "undefined"
            /\ serialize("JSONValue", v).text = <<>>
            /\ serialize("ArrayType", <<FromLiteral("true_v"), v>>).text
                  = <<LBracket, Space>> \o TrueText \o <<Space, RBracket>>
            /\ serialize("ObjectType", <<[key |-> <<97>>, value |-> v]>>).text
                  = <<LBrace, Space, RBrace>>

(* an object was move assigned to itself *)
C27_Witness ==
    /\ last.op = "MoveAssign" /\ last.d = last.s
    /\ last.was.type = "object"
    /\ vals[last.d].type = "undefined"

-----------------------------------------------------------------------------
(* Strings back from their text, nested undefined values, the registry.    *)

Unescape(c) ==
    CASE c = 110 -> Newline
      [] c = 114 -> CarriageReturn
      [] c = 116 -> Tab
      [] c = 102 -> FormFeed
      [] c = 98 -> Backspace
      [] OTHER -> c

(* every two-character escape replaced by the character it stands for *)
RECURSIVE Decode(_)
Decode(text) ==
    IF text = <<>> THEN <<>>
    ELSE IF Head(text) = Backslash /\ Len(text) >= 2
         THEN <<Unescape(text[2])>> \o Decode(SubSeq(text, 3, Len(text)))
         ELSE <<Head(text)>> \o Decode(Tail(text))

(* the number of backslashes that end at position n of the text *)
RECURSIVE BackslashesBefore(_, _)
BackslashesBefore(text, n) ==
    IF n = 0 \/ text[n] # Backslash THEN 0 ELSE 1 + BackslashesBefore(text, n - 1)

Confusable == SeqsUpTo({Backslash, Quote, Newline, 110}, 2)

(* C28: the text of a string determines the string: two distinct strings   *)
(* have distinct texts, replacing every two-character escape between the   *)
(* outer quotes by its character gives the string back, and every quote    *)
(* between the outer quotes has an odd number of backslashes before it.    *)
C28_StringDecodable ==
    Called("StringType") =>
        LET text == call.text
            inner == SubSeq(text, 2, Len(text) - 1)
        IN  /\ Len(text) >= 2 /\ text[1] = Quote /\ text[Len(text)] = Quote
            /\ Decode(inner) = arg.v
            /\ \A i \in 1..Len(inner) :
                  inner[i] = Quote => BackslashesBefore(inner, i - 1) % 2 = 1
            /\ \A t \in Confusable :
                  t # arg.v => serialize("StringType", t).text # text

(* a backslash before an n, and a newline, were serialized *)
C28_WitnessNewline ==
    /\ Called("StringType") /\ arg.v = <<Newline>>
    /\ call.text = <<Quote, Backslash, 110, Quote>>

C28_Witness ==
    /\ Called("StringType") /\ arg.v = <<Backslash, 110, Quote>>
    /\ call.text = <<Quote, Backslash, Backslash, 110, Backslash, Quote, Quote>>

(* an array or object that holds its type's payload *)
IsContainer(v) == v.type \in {"array", "object"} /\ v.value.alt = v.type

(* a container none of whose children is kept *)
Hollow(v) ==
    /\ IsContainer(v)
    /\ v.type = "array" => \A i \in 1..Len(v.value.v) : ~IsDefined(v.value.v[i])
    /\ v.type = "object" => \A i \in 1..Len(v.value.v) : ~HasDefinedValue(v.value.v[i])

(* the value without the undefined values in it, at every depth *)
RECURSIVE Strip(_)
StripArray(val) ==
    LET kept == SelectSeq(val, IsDefined)
    IN  [i \in 1..Len(kept) |-> Strip(kept[i])]

StripObject(val) ==
    LET kept == SelectSeq(val, HasDefinedValue)
    IN  [i \in 1..Len(kept) |-> [key |-> kept[i].key, value |-> Strip(kept[i].value)]]

Strip(v) ==
    IF ~IsContainer(v) THEN v
    ELSE IF v.type = "array" THEN FromArray(StripArray(v.value.v))
    ELSE FromObject(StripObject(v.value.v))

HollowText(v) ==
    IF v.type = "array" THEN <<LBracket, Space, RBracket>> ELSE <<LBrace, Space, RBrace>>

KeptText(v) == IF Hollow(v) THEN HollowText(v) ELSE serialize("JSONValue", Strip(v)).text

(* C29: containers filter their children by type only, at every depth: an  *)
(* undefined JSONValue at any depth inside arrays or objects contributes   *)
(* no text, whereas a child array or object that is empty, or whose        *)
(* children are all undefined, is kept by its parent and rendered as [ ]   *)
(* or { }.                                                                 *)
C29_FilteredByKindOnly ==
    /\ Called("ArrayType") =>
          LET kept == SelectSeq(arg.v, IsDefined)
              texts == [i \in 1..Len(kept) |-> KeptText(kept[i])]
          IN  /\ call.text = serialize("ArrayType", StripArray(arg.v)).text
              /\ call.text = IF Len(kept) = 0 THEN <<LBracket, Space, RBracket>>
                             ELSE <<LBracket, Space>> \o Join(texts, <<Comma, Space>>)
                                  \o <<Space, RBracket>>
    /\ Called("ObjectType") =>
          LET kept == SelectSeq(arg.v, HasDefinedValue)
              texts == [i \in 1..Len(kept) |->
                          serialize("StringType", kept[i].key).text
                          \o <<Space, Colon, Space>> \o KeptText(kept[i].value)]
          IN  /\ call.text = serialize("ObjectType", StripObject(arg.v)).text
              /\ call.text = IF Len(kept) = 0 THEN <<LBrace, Space, RBrace>>
                             ELSE <<LBrace, Space>> \o Join(texts, <<Comma, Space>>)
                                  \o <<Space, RBrace>>

(* an object whose value is an array of one undefined value *)
C29_WitnessObject ==
    /\ Called("ObjectType") /\ Len(arg.v) = 1
    /\ arg.v[1].key = <<97>> /\ arg.v[1].value = FromArray(<<DefaultValue>>)
    /\ call.text = <<LBrace, Space, Quote, 97, Quote, Space, Colon, Space,
                     LBracket, Space, RBracket, Space, RBrace>>

(* an undefined value two arrays deep, beside an empty object *)
C29_Witness ==
    /\ Called("ArrayType") /\ Len(arg.v) = 3
    /\ arg.v[1] = FromArray(<<FromArray(<<DefaultValue>>)>>)
    /\ arg.v[2] = DefaultValue
    /\ arg.v[3] = FromObject(<<>>)
    /\ call.text = <<LBracket, Space, LBracket, Space, LBracket, Space, RBracket, Space,
                     RBracket, Comma, Space, LBrace, Space, RBrace, Space, RBracket>>

(* C30: the record of the registry for a type is coherent: serializable is *)
(* true exactly when serializer is not null, and then serializer points to *)
(* the implementation of that type; for an unregistered type serializable  *)
(* is false and serializer is nullptr.                                     *)
C30_RegistryCoherent ==
    arg # None =>
        /\ \A T \in {Plain(arg.T)} \cup {Deduced(arg.T, form) : form \in Forms} :
              LET info == JSONSerializationInfo(T)
              IN  /\ info.serializable <=> ~info.serializer.null
                  /\ info.serializable => info.serializer.impl = T.name
                  /\ is_json_serializable_v(T) = info.serializable
                  /\ json_serializer_v(T) = info.serializer
                  /\ (T.ref # "none" \/ T.name \notin Registered) =>
                        ~info.serializable /\ info.serializer.null
                  /\ (T.ref = "none" /\ T.name \in Registered) =>
                        info.serializable /\ ~info.serializer.null
        /\ (call # None /\ call.path = "direct") =>
              /\ ~json_serializer_v(Plain(arg.T)).null
              /\ call.trace[1] = Event("call", json_serializer_v(Plain(arg.T)).impl)
              /\ call.text = LET r == serializer(json_serializer_v(Plain(arg.T)).impl, arg.v)
                              IN  IF r.thrown THEN <<>> ELSE r.text

(* the unregistered type was looked up and rejected *)
C30_WitnessUnregistered ==
    /\ arg # None /\ arg.T = "Opaque" /\ call = Rejected
    /\ ~JSONSerializationInfo(Plain("Opaque")).serializable

(* the user-registered type was serialized through its serializer *)
C30_Witness ==
    /\ Called("Example") /\ call.path = "direct"
    /\ json_serializer_v(Plain("Example")) = [null |-> FALSE, impl |-> "Example"]
    /\ call.text # <<>>

=============================================================================
